---- MODULE Spec2Model ----
(***************************************************************************)
(* A model of the administrative commands of zerobin/cli.py:               *)
(*   clean_expired_pastes  (expiry sweep, then empty-directory reaping)    *)
(*   delete_paste          (delete pastes given by id or by URL)           *)
(* over a sharded storage tree.  The Paste entity (load, delete,           *)
(* has_expired, iter_all) and the path scheme live in zerobin/paste.py,    *)
(* which is not among the sources; they are modelled from the              *)
(* specification (sections 4.1 and 4.2).  pathlib's rglob, is_dir,         *)
(* iterdir and rmdir are modelled by what CPython's pathlib does.          *)
(***************************************************************************)
EXTENDS Naturals, Sequences, FiniteSets, TLC

\* ------------------------------------------------------------------ bounds
MaxPastes == 2      \* pastes in an initial storage tree
MaxEmptyDirs == 1   \* directories of an initial tree that no paste needs
MaxTime == 1        \* the clock and the expiration timestamps are 0..MaxTime
MaxBroken == 1      \* paths on which the OS refuses a removal
MaxArgs == 2        \* arguments of one delete_paste command
MaxRuns == 2        \* commands run one after the other
MaxOther == 1       \* removals made by a concurrent actor

\* ------------------------------------------------- storage tree and pastes
\* A path is the sequence of its components below the data directory; the
\* data directory itself is the empty sequence.
DATA_DIR == << >>
NoPath == <<"-">>

\* The identifiers of the model.  path_for(id) shards an identifier into two
\* nested directory levels (its first component, then its first two) and
\* keeps the whole identifier as the leaf, so the identifier is its own path.
PasteIds == { <<"a","a","a">>, <<"a","a","b">>, <<"a","b","a">>, <<"b","a","a">> }

Prefix(p, n) == SubSeq(p, 1, n)

path_for(id) == id

Parent(p) == Prefix(p, Len(p) - 1)

ShardDirs(id) == { Prefix(path_for(id), n) : n \in 1..(Len(id) - 1) }

AllDirs == UNION { ShardDirs(id) : id \in PasteIds }

Timestamps == 0..MaxTime

\* What a stored paste carries of its expiration: "never", a timestamp, or
\* burn-after-reading with the served flag kept beside the payload.
PasteStates ==
    { [expiration |-> "never", at |-> 0, served |-> FALSE] }
    \cup { [expiration |-> "timestamp", at |-> t, served |-> FALSE] : t \in Timestamps }
    \cup { [expiration |-> "burn_after_reading", at |-> 0, served |-> s] : s \in BOOLEAN }

VARIABLES
    dirs,      \* the directories that exist (DATA_DIR always does)
    files,     \* the pastes on disk: path -> paste state
    now,       \* the clock
    broken,    \* paths whose removal the OS refuses (permission, busy)
    pc,        \* where the running command is
    cmd,       \* "none", "clean" or "delete"
    dry_run,   \* the dry_run option of clean_expired_pastes
    todo,      \* pastes iter_all has still to yield
    cur,       \* the item the loop body is acting on
    i,         \* the loop counter i of clean_expired_pastes
    stack,     \* the frames of the rglob("*") generator
    out,       \* the counts printed: [pastes, dirs, done]
    errors,    \* paths of the 'Error while processing' lines printed
    argv,      \* the arguments of delete_paste
    k,         \* the argument delete_paste is at
    report,    \* the lines delete_paste printed: <<id, message>>
    dirs0,     \* the directories when the command started
    files0,    \* the pastes when the command started
    deleted,   \* pastes this command deleted
    removed,   \* directories this command removed
    visited,   \* reaping: path -> what the loop body found there
    lastDry,   \* the last dry run: the tree it saw and the counts it printed
    runs,      \* commands started so far
    others     \* removals the concurrent actor has made

vars == << dirs, files, now, broken, pc, cmd, dry_run, todo, cur, i, stack, out,
           errors, argv, k, report, dirs0, files0, deleted, removed, visited,
           lastDry, runs, others >>

\* -------------------------------------------------------- the file system
IsPrefixOf(d, p) == Len(d) <= Len(p) /\ Prefix(p, Len(d)) = d

\* os.scandir(d): the entries of directory d
Entries(d) ==
    { x \in dirs : x # DATA_DIR /\ Parent(x) = d }
    \cup { x \in DOMAIN files : Parent(x) = d }

\* Path.is_dir()
is_dir(p) == p \in dirs

\* not next(p.iterdir(), None)
IsEmpty(p) == Entries(p) = {}

Without(f, p) == [ x \in (DOMAIN f) \ {p} |-> f[x] ]

\* --------------------------------------------------- spec-modelled: Paste
\* Paste.has_expired: a timestamp in the past, or a read-once paste that has
\* been served.
has_expired(paste) ==
    \/ paste.expiration = "timestamp" /\ paste.at < now
    \/ paste.expiration = "burn_after_reading" /\ paste.served

\* Paste.iter_all(): every paste on disk, in no particular order.
iter_all == DOMAIN files

\* Paste.load(id) finds a paste exactly when one is stored at path_for(id);
\* a missing paste and a malformed identifier both raise the error that the
\* caller reports as "doesn't exist".
LoadResult(id) == IF path_for(id) \in DOMAIN files THEN "ok" ELSE "ValueError"

\* Paste.delete(): removes the paste; silent when it is already gone; the OS
\* may refuse (IOFailure).
DeleteResult(p) == IF p \in broken /\ p \in DOMAIN files THEN "PermissionError" ELSE "ok"

\* ------------------------------------------------------------ unpack_paste
\* A command-line argument is a sequence of tokens; "/paste/" is one token.
\* paste_url = re.compile("/paste/(?P<paste_id>.*)#(?P<key>.*)"), searched:
\* the match starts at the leftmost "/paste/" that has a "#" after it, and
\* the greedy paste_id group runs to the last "#".
HashesAfter(s, n) == { j \in (n + 1)..Len(s) : s[j] = "#" }

UrlStarts(s) == { n \in 1..Len(s) : s[n] = "/paste/" /\ HashesAfter(s, n) # {} }

Least(S) == CHOOSE x \in S : \A y \in S : x <= y

Greatest(S) == CHOOSE x \in S : \A y \in S : y <= x

unpack_paste_noparse(paste) == paste

unpack_paste(paste) ==
    IF UrlStarts(paste) # {}
    THEN LET n == Least(UrlStarts(paste))
             j == Greatest(HashesAfter(paste, n))
         IN  SubSeq(paste, n + 1, j - 1)
    ELSE paste

\* ------------------------------------------------- exceptions and handlers
\* rmdir on a path: the OS refuses, the directory is gone, it is not empty,
\* or it is removed.
RmdirResult(p) ==
    IF p \notin dirs THEN "FileNotFoundError"
    ELSE IF p \in broken THEN "PermissionError"
    ELSE IF ~IsEmpty(p) THEN "OSError"
    ELSE "ok"

OSErrors == { "OSError", "PermissionError", "FileNotFoundError" }

\* except OSError as e: (inside the reaping loop)
ReapHandles_none(exc) == FALSE

ReapHandles(exc) == exc \in OSErrors

\* except ValueError: (inside the delete_paste loop)
DeleteHandles(exc) == exc = "ValueError"

\* if not dry_run: p.delete()
SweepMutates_flipped(dry) == dry

SweepMutates(dry) == ~dry

\* if not dry_run: p.rmdir()
ReapMutates_always(dry) == TRUE

ReapMutates(dry) == ~dry

\* if p.is_dir() and not next(p.iterdir(), None):
ReapCandidate_nonempty(p) == is_dir(p) /\ ~IsEmpty(p)

ReapCandidate(p) == is_dir(p) /\ IsEmpty(p)

\* for p in Paste.iter_all(): the loop ends when the iterator is exhausted
SweepFinished_early == TRUE

SweepFinished == todo = {}

\* ------------------------------------------------------------------ output
Line(what, n) == [line |-> what, count |-> n]

PastesLine(dry, n) ==
    Line(IF dry THEN "pastes would have been deleted" ELSE "pastes deleted", n)

DirsLine(dry, n) ==
    Line(IF dry THEN "directories would have been deleted"
                ELSE "directories deleted", n)

DoneLine == Line("Done", 0)

\* -------------------------------------------------------------------- Init
DirsOf(S, extra) ==
    {DATA_DIR}
    \cup { d \in AllDirs : \E x \in (UNION { ShardDirs(id) : id \in S }) \cup extra :
                              IsPrefixOf(d, x) }

InitTree ==
    /\ \E S \in SUBSET PasteIds :
         /\ Cardinality(S) <= MaxPastes
         /\ files \in [S -> PasteStates]
         /\ \E extra \in SUBSET AllDirs :
              /\ Cardinality(extra) <= MaxEmptyDirs
              /\ dirs = DirsOf(S, extra)
    /\ now = MaxTime
    /\ pc = "idle"
    /\ cmd = "none"
    /\ dry_run = FALSE
    /\ todo = {}
    /\ cur = NoPath
    /\ i = 0
    /\ stack = << >>
    /\ out = << >>
    /\ errors = {}
    /\ argv = << >>
    /\ k = 1
    /\ report = << >>
    /\ dirs0 = dirs
    /\ files0 = files
    /\ deleted = {}
    /\ removed = {}
    /\ visited = {}
    /\ lastDry = {}
    /\ runs = 0
    /\ others = 0

Init == InitTree /\ broken = {}

InitFail ==
    /\ InitTree
    /\ broken \in { B \in SUBSET ((DOMAIN files) \cup (dirs \ {DATA_DIR})) :
                       Cardinality(B) <= MaxBroken }

\* ---------------------------------------------------- clean_expired_pastes
Running == pc \in { "sweep", "sweep_expired", "reap", "reap_empty", "delete" }

Ended == pc \in { "done", "aborted" }

Fresh ==
    /\ dirs0' = dirs
    /\ files0' = files
    /\ deleted' = {}
    /\ removed' = {}
    /\ visited' = {}
    /\ errors' = {}
    /\ out' = << >>
    /\ report' = << >>
    /\ cur' = NoPath
    /\ i' = 0
    /\ stack' = << >>
    /\ runs' = runs + 1

\* clean_expired_pastes(dry_run=dry): "Deleting expired pastes...", i = 0,
\* and the iterator over the pastes is created.
CleanStart ==
    /\ pc = "idle"
    /\ runs < MaxRuns
    /\ \E dry \in BOOLEAN : dry_run' = dry
    /\ cmd' = "clean"
    /\ pc' = "sweep"
    /\ todo' = iter_all
    /\ argv' = << >>
    /\ k' = 1
    /\ Fresh
    /\ UNCHANGED << dirs, files, now, broken, lastDry, others >>

\* for p in Paste.iter_all(): if p.has_expired:
\* a paste that vanished since the walk began is skipped by iter_all.
SweepNext ==
    /\ pc = "sweep"
    /\ todo # {}
    /\ \E p \in todo :
         /\ todo' = todo \ {p}
         /\ IF p \in DOMAIN files /\ has_expired(files[p])
            THEN cur' = p /\ pc' = "sweep_expired"
            ELSE cur' = NoPath /\ pc' = "sweep"
    /\ UNCHANGED << dirs, files, now, broken, cmd, dry_run, i, stack, out, errors,
                    argv, k, report, dirs0, files0, deleted, removed, visited,
                    lastDry, runs, others >>

\* if not dry_run: p.delete()   ...   i += 1
\* Nothing in the loop catches an exception of p.delete().
SweepDelete ==
    /\ pc = "sweep_expired"
    /\ IF SweepMutates(dry_run)
       THEN IF DeleteResult(cur) = "ok"
            THEN /\ files' = (IF cur \in DOMAIN files THEN Without(files, cur) ELSE files)
                 /\ deleted' = (IF cur \in DOMAIN files THEN deleted \cup {cur} ELSE deleted)
                 /\ i' = i + 1
                 /\ pc' = "sweep"
            ELSE /\ pc' = "aborted"
                 /\ UNCHANGED << files, deleted, i >>
       ELSE /\ i' = i + 1
            /\ pc' = "sweep"
            /\ UNCHANGED << files, deleted >>
    /\ cur' = NoPath
    /\ UNCHANGED << dirs, now, broken, cmd, dry_run, todo, stack, out, errors, argv,
                    k, report, dirs0, files0, removed, visited, lastDry, runs,
                    others >>

\* The frame of rglob's _iterate_directories for directory d, as d is
\* yielded and the "*" selector lists its entries.
Frame(d) == [ dir |-> d, toVisit |-> Entries(d), toEnter |-> {}, scanned |-> FALSE ]

Top == stack[Len(stack)]

SetTop(f) == [ stack EXCEPT ![Len(stack)] = f ]

\* print(f"{i} pastes deleted"); "Deleting empty paste directories...";
\* i = 0; for p in settings.DATA_DIR.rglob("*"):
SweepEnd ==
    /\ pc = "sweep"
    /\ SweepFinished
    /\ out' = Append(out, PastesLine(dry_run, i))
    /\ i' = 0
    /\ stack' = << Frame(DATA_DIR) >>
    /\ pc' = "reap"
    /\ UNCHANGED << dirs, files, now, broken, cmd, dry_run, todo, cur, errors, argv,
                    k, report, dirs0, files0, deleted, removed, visited, lastDry,
                    runs, others >>

Found(p) ==
    IF ReapCandidate(p) THEN "empty"
    ELSE IF is_dir(p) THEN "nonempty"
    ELSE "notdir"

\* rglob yields the next entry p of the directory on top;
\* if p.is_dir() and not next(p.iterdir(), None):
ReapVisit ==
    /\ pc = "reap"
    /\ stack # << >>
    /\ Top.toVisit # {}
    /\ \E p \in Top.toVisit :
         /\ stack' = SetTop([ Top EXCEPT !.toVisit = @ \ {p} ])
         /\ visited' = visited \cup { << p, Found(p) >> }
         /\ IF ReapCandidate(p)
            THEN cur' = p /\ pc' = "reap_empty"
            ELSE cur' = NoPath /\ pc' = "reap"
    /\ UNCHANGED << dirs, files, now, broken, cmd, dry_run, todo, i, out, errors,
                    argv, k, report, dirs0, files0, deleted, removed, lastDry,
                    runs, others >>

\* if not dry_run: p.rmdir()   ...   i += 1
\* except OSError as e: print(f'Error while processing "{p}: {e}')
ReapRmdir ==
    /\ pc = "reap_empty"
    /\ IF ReapMutates(dry_run)
       THEN IF RmdirResult(cur) = "ok"
            THEN /\ dirs' = dirs \ {cur}
                 /\ removed' = removed \cup {cur}
                 /\ i' = i + 1
                 /\ pc' = "reap"
                 /\ UNCHANGED errors
            ELSE IF ReapHandles(RmdirResult(cur))
            THEN /\ errors' = errors \cup {cur}
                 /\ pc' = "reap"
                 /\ UNCHANGED << dirs, removed, i >>
            ELSE /\ pc' = "aborted"
                 /\ UNCHANGED << dirs, removed, i, errors >>
       ELSE /\ i' = i + 1
            /\ pc' = "reap"
            /\ UNCHANGED << dirs, removed, errors >>
    /\ cur' = NoPath
    /\ UNCHANGED << files, now, broken, cmd, dry_run, todo, stack, out, argv, k,
                    report, dirs0, files0, deleted, visited, lastDry, runs, others >>

\* What rglob does when the directory it is about to list is gone: CPython
\* 3.11 and earlier catch PermissionError only, so FileNotFoundError leaves
\* the generator and, outside the try of the loop body, the command; later
\* versions ignore the error and go on.
RglobOnVanished == { "raise", "skip" }

\* _iterate_directories resumes after the entries of the directory on top
\* have been yielded: it lists the directory again and keeps its
\* subdirectories, which it will enter one by one.
ReapScan ==
    /\ pc = "reap"
    /\ stack # << >>
    /\ Top.toVisit = {}
    /\ ~Top.scanned
    /\ IF Top.dir \in dirs
       THEN /\ stack' = SetTop([ Top EXCEPT !.scanned = TRUE,
                                            !.toEnter = Entries(Top.dir) \cap dirs ])
            /\ pc' = "reap"
       ELSE \E o \in RglobOnVanished :
              IF o = "raise"
              THEN pc' = "aborted" /\ UNCHANGED stack
              ELSE pc' = "reap" /\ stack' = SetTop([ Top EXCEPT !.scanned = TRUE ])
    /\ UNCHANGED << dirs, files, now, broken, cmd, dry_run, todo, cur, i, out,
                    errors, argv, k, report, dirs0, files0, deleted, removed,
                    visited, lastDry, runs, others >>

\* _iterate_directories recurses into a subdirectory s: s is yielded and the
\* "*" selector lists its entries.
ReapEnter ==
    /\ pc = "reap"
    /\ stack # << >>
    /\ Top.toVisit = {}
    /\ Top.scanned
    /\ Top.toEnter # {}
    /\ \E s \in Top.toEnter :
         LET rest == SetTop([ Top EXCEPT !.toEnter = @ \ {s} ])
         IN  IF s \in dirs
             THEN pc' = "reap" /\ stack' = Append(rest, Frame(s))
             ELSE \E o \in RglobOnVanished :
                    IF o = "raise"
                    THEN pc' = "aborted" /\ stack' = rest
                    ELSE pc' = "reap" /\ stack' = rest
    /\ UNCHANGED << dirs, files, now, broken, cmd, dry_run, todo, cur, i, out,
                    errors, argv, k, report, dirs0, files0, deleted, removed,
                    visited, lastDry, runs, others >>

\* _iterate_directories returns from a directory whose subdirectories have
\* all been entered.
ReapLeave ==
    /\ pc = "reap"
    /\ stack # << >>
    /\ Top.toVisit = {}
    /\ Top.scanned
    /\ Top.toEnter = {}
    /\ stack' = SubSeq(stack, 1, Len(stack) - 1)
    /\ UNCHANGED << dirs, files, now, broken, pc, cmd, dry_run, todo, cur, i, out,
                    errors, argv, k, report, dirs0, files0, deleted, removed,
                    visited, lastDry, runs, others >>

\* print(f"{i} directories deleted"); print("Done")
ReapEnd ==
    /\ pc = "reap"
    /\ stack = << >>
    /\ out' = out \o << DirsLine(dry_run, i), DoneLine >>
    /\ pc' = "done"
    /\ lastDry' = (IF dry_run
                   THEN { [ dirs |-> dirs0, files |-> files0,
                            pastes |-> out[1].count, directories |-> i ] }
                   ELSE lastDry)
    /\ UNCHANGED << dirs, files, now, broken, cmd, dry_run, todo, cur, i, stack,
                    errors, argv, k, report, dirs0, files0, deleted, removed,
                    visited, runs, others >>

\* ------------------------------------------------------------ delete_paste
\* The arguments of the model: identifiers, paste URLs (host, "/paste/",
\* identifier, "#", key) and strings that name no paste.
ArgIds == { <<"a","a","a">> }

UrlIds == { <<"a","a","a">>, <<"a","b","a">> }

Keys == { <<"k">> }

Url(id, key) == <<"h", "/paste/">> \o id \o <<"#">> \o key

NotAPaste == { <<"h", "/paste/", "k">> }

ArgUniverse == ArgIds \cup { Url(id, key) : id \in UrlIds, key \in Keys } \cup NotAPaste

ArgLists == UNION { [1..n -> ArgUniverse] : n \in 0..MaxArgs }

\* delete_paste(*pastes)
DeleteStart ==
    /\ pc = "idle"
    /\ runs < MaxRuns
    /\ argv' \in ArgLists
    /\ cmd' = "delete"
    /\ pc' = "delete"
    /\ k' = 1
    /\ todo' = {}
    /\ dry_run' = FALSE
    /\ Fresh
    /\ UNCHANGED << dirs, files, now, broken, lastDry, others >>

\* for paste_uuid in map(unpack_paste, pastes):
\*     try: Paste.load(paste_uuid).delete(); print("Paste {} is removed")
\*     except ValueError: print("Paste {} doesn't exist")
DeleteStep ==
    /\ pc = "delete"
    /\ k <= Len(argv)
    /\ LET paste_uuid == unpack_paste(argv[k])
           loaded == LoadResult(paste_uuid)
           exc == IF loaded = "ok" THEN DeleteResult(path_for(paste_uuid)) ELSE loaded
       IN  IF exc = "ok"
           THEN /\ files' = Without(files, path_for(paste_uuid))
                /\ deleted' = deleted \cup { path_for(paste_uuid) }
                /\ report' = Append(report, << paste_uuid, "is removed" >>)
                /\ k' = k + 1
                /\ pc' = "delete"
           ELSE IF DeleteHandles(exc)
           THEN /\ report' = Append(report, << paste_uuid, "doesn't exist" >>)
                /\ k' = k + 1
                /\ pc' = "delete"
                /\ UNCHANGED << files, deleted >>
           ELSE /\ pc' = "aborted"
                /\ UNCHANGED << files, deleted, report, k >>
    /\ UNCHANGED << dirs, now, broken, cmd, dry_run, todo, cur, i, stack, out,
                    errors, argv, dirs0, files0, removed, visited, lastDry, runs,
                    others >>

\* the loop is over and the command returns
DeleteEnd ==
    /\ pc = "delete"
    /\ k > Len(argv)
    /\ pc' = "done"
    /\ UNCHANGED << dirs, files, now, broken, cmd, dry_run, todo, cur, i, stack,
                    out, errors, argv, k, report, dirs0, files0, deleted, removed,
                    visited, lastDry, runs, others >>

\* The process has exited; the operator may run another command.
Return ==
    /\ Ended
    /\ runs < MaxRuns
    /\ pc' = "idle"
    /\ UNCHANGED << dirs, files, now, broken, cmd, dry_run, todo, cur, i, stack,
                    out, errors, argv, k, report, dirs0, files0, deleted, removed,
                    visited, lastDry, runs, others >>

\* ------------------------------------------------------ a concurrent actor
\* The serving process, or another cleanup run, deletes a paste while a
\* command is running.
OtherDelete ==
    /\ Running
    /\ others < MaxOther
    /\ \E p \in DOMAIN files : files' = Without(files, p)
    /\ others' = others + 1
    /\ UNCHANGED << dirs, now, broken, pc, cmd, dry_run, todo, cur, i, stack, out,
                    errors, argv, k, report, dirs0, files0, deleted, removed,
                    visited, lastDry, runs >>

\* Another cleanup run removes an empty directory while a command is running.
OtherRmdir ==
    /\ Running
    /\ others < MaxOther
    /\ \E d \in dirs \ {DATA_DIR} :
         /\ IsEmpty(d)
         /\ dirs' = dirs \ {d}
    /\ others' = others + 1
    /\ UNCHANGED << files, now, broken, pc, cmd, dry_run, todo, cur, i, stack, out,
                    errors, argv, k, report, dirs0, files0, deleted, removed,
                    visited, lastDry, runs >>

\* ---------------------------------------------------------- specifications
NextOnce ==
    \/ CleanStart
    \/ SweepNext
    \/ SweepDelete
    \/ SweepEnd
    \/ ReapVisit
    \/ ReapRmdir
    \/ ReapScan
    \/ ReapEnter
    \/ ReapLeave
    \/ ReapEnd

Next ==
    \/ NextOnce
    \/ Return

NextDelete ==
    \/ DeleteStart
    \/ DeleteStep
    \/ DeleteEnd
    \/ Return

NextConc ==
    \/ NextOnce
    \/ OtherDelete
    \/ OtherRmdir

\* clean_expired_pastes run by one operator, time after time, with no failure
\* of the OS
Spec == Init /\ [][Next]_vars

\* delete_paste, one operator, no failure of the OS
SpecDelete == Init /\ [][NextDelete]_vars

\* one run of clean_expired_pastes when the OS refuses to remove some paths
SpecFail == InitFail /\ [][NextOnce]_vars

\* one run of clean_expired_pastes while a concurrent actor removes pastes
\* and empty directories
SpecConc == Init /\ [][NextConc]_vars

\* ------------------------------------------------------------------ claims
CleanRan == cmd = "clean" /\ ~dry_run /\ pc = "done"

Expired0 == { p \in DOMAIN files0 : has_expired(files0[p]) }

\* C1: after a non-dry-run clean_expired_pastes has run to completion, every
\* paste that was expired is gone, every paste that was not expired is still
\* there unchanged, and the 'pastes deleted' count is the number of pastes
\* removed.
C1_SweepDeletesExactlyTheExpired ==
    CleanRan =>
        /\ \A p \in DOMAIN files0 :
             IF has_expired(files0[p])
             THEN p \notin DOMAIN files
             ELSE p \in DOMAIN files /\ files[p] = files0[p]
        /\ out[1] = PastesLine(FALSE, Cardinality((DOMAIN files0) \ (DOMAIN files)))

C1_Witness ==
    /\ CleanRan
    /\ deleted # {}
    /\ \E p \in DOMAIN files : p \in DOMAIN files0

\* C2: a dry run changes neither the pastes nor the directories, and the
\* paste count it prints is the number of expired pastes.
C2_DryRunMutatesNothing ==
    (cmd = "clean" /\ dry_run) =>
        /\ files = files0
        /\ dirs = dirs0
        /\ pc = "done" => out[1] = PastesLine(TRUE, Cardinality(Expired0))

C2_Witness ==
    /\ cmd = "clean" /\ dry_run /\ pc = "done"
    /\ Expired0 # {}
    /\ Expired0 # DOMAIN files0
    /\ out[2].count > 0

\* the entries a directory had when the command started
Entries0(d) ==
    { x \in dirs0 : x # DATA_DIR /\ Parent(x) = d }
    \cup { x \in DOMAIN files0 : Parent(x) = d }

OnlyExpiredPastes(d) ==
    /\ Entries0(d) # {}
    /\ \A x \in Entries0(d) : x \in Expired0

HoldsLivePaste(d) ==
    \E p \in DOMAIN files : ~has_expired(files[p]) /\ IsPrefixOf(d, p)

C4_NoEmptyDirectoryRemains ==
    CleanRan => \A d \in dirs \ {DATA_DIR} : ~IsEmpty(d)

\* C5: a failure on one paste does not end the sweep: when the command has
\* ended, every paste has been visited, every expired paste whose deletion
\* the OS allows is gone, and the reaping pass has run to its 'Done'.
C5_SweepSurvivesAFailure ==
    (cmd = "clean" /\ ~dry_run /\ Ended) =>
        /\ todo = {}
        /\ \A p \in Expired0 : p \notin broken => p \notin DOMAIN files
        /\ Len(out) = 3 /\ out[3] = DoneLine

\* C6: during reaping a failure on one directory is caught for that
\* directory alone: it is reported and not counted, every other directory is
\* examined and removed if empty, and the pass ends with its count and 'Done'.
C6_ReapFailureIsIsolated ==
    (cmd = "clean" /\ ~dry_run /\ Len(out) >= 1) =>
        /\ pc # "aborted"
        /\ errors \subseteq broken
        /\ errors \cap removed = {}
        /\ pc = "done" =>
             /\ \A d \in dirs0 \ {DATA_DIR} : \E v \in visited : v[1] = d
             /\ \A v \in visited :
                  v[2] = "empty" =>
                      IF v[1] \in broken
                      THEN v[1] \in errors /\ v[1] \in dirs
                      ELSE v[1] \in removed /\ v[1] \notin dirs
             /\ out[2] = DirsLine(FALSE, Cardinality(removed))
             /\ out[3] = DoneLine

C6_Witness ==
    /\ CleanRan
    /\ errors # {}
    /\ removed # {}

\* C7: a paste or directory that vanishes between the check and the act is
\* treated as already done: no error is raised or reported for it.
C7_VanishedIsAlreadyDone ==
    cmd = "clean" => errors = {} /\ pc # "aborted"

\* C8: the two passes are sequential: no directory is removed before the
\* sweep has visited every paste, and no paste is deleted after the first
\* directory removal.
C8_PassesAreSequential ==
    /\ [](removed # {} => todo = {} /\ pc \notin { "sweep", "sweep_expired" })
    /\ [][removed # {} => files' = files]_vars

C8_Witness ==
    /\ CleanRan
    /\ deleted # {}
    /\ removed # {}

\* the paste an argument names: the identifier of a paste URL, or the
\* argument itself
Intended(arg) ==
    IF \E id \in PasteIds, key \in Keys : arg = Url(id, key)
    THEN CHOOSE id \in PasteIds : \E key \in Keys : arg = Url(id, key)
    ELSE arg

Listed == { Intended(argv[n]) : n \in 1..Len(argv) }

\* C9: delete_paste handles every argument on its own: a paste that loads is
\* deleted and reported removed, one that does not load (absent, deleted
\* earlier in the list, malformed) is reported as "doesn't exist" without
\* raising; afterwards no listed paste exists and no other paste is touched.
C9_DeleteEachArgument ==
    cmd = "delete" =>
        /\ pc # "aborted"
        /\ pc = "done" =>
             /\ Len(report) = Len(argv)
             /\ \A n \in 1..Len(argv) :
                  report[n] =
                    << Intended(argv[n]),
                       IF /\ Intended(argv[n]) \in DOMAIN files0
                          /\ \A m \in 1..(n - 1) : Intended(argv[m]) # Intended(argv[n])
                       THEN "is removed"
                       ELSE "doesn't exist" >>
             /\ Listed \cap DOMAIN files = {}
             /\ \A p \in (DOMAIN files0) \ Listed :
                  p \in DOMAIN files /\ files[p] = files0[p]

C9_Witness ==
    /\ cmd = "delete" /\ pc = "done"
    /\ Len(argv) = 2
    /\ argv[1] # argv[2]
    /\ report[1][2] = "is removed"
    /\ report[2][2] = "doesn't exist"
    /\ Intended(argv[1]) = Intended(argv[2])
    /\ DOMAIN files # {}

\* C10: the two counts of a dry run equal the two counts of a run without
\* dry_run on the same tree.
C10_DryRunCountsMatch ==
    CleanRan =>
        \A r \in lastDry :
            (r.dirs = dirs0 /\ r.files = files0) =>
                /\ r.pastes = out[1].count
                /\ r.directories = out[2].count

====
